---- MODULE Spec2Model ----
(***************************************************************************)
(* Order ledger of the e-commerce API: cart -> checkout -> fulfilment ->   *)
(* completion / cancellation, with the stock adjustments.  Every route     *)
(* handler is modelled statement by statement: each database round trip    *)
(* (an awaited prisma call) is one atomic step, a prisma.$transaction      *)
(* block is one atomic step that either commits all its statements or      *)
(* none, and the handlers of concurrent requests interleave between their  *)
(* round trips.                                                            *)
(***************************************************************************)
EXTENDS Integers, Sequences, FiniteSets, TLC

(* ------------------------------ bounds --------------------------------- *)

\* Largest quantity a cart line may hold.
MaxQty == 2

\* Stock every product starts with.
InitStock == 2

\* Number of orders ever created.
MaxOrders == 1

\* Number of orders ever created where only the cart and the checkout run.
MaxCheckouts == 2

\* Number of cart lines ever created (cart line ids are 1..MaxCartLines).
MaxCartLines == 2

(* ------------------------------ universe -------------------------------- *)

Users == {1, 2}

\* The users who buy where the whole ledger runs.
Buyers == {1}

Products == {1, 2}

\* The products bought where the reviews run.
Bought == {2}

\* Requests being handled at the same time.
Reqs == {1, 2}

\* The shop a product belongs to is owned by one user (Shop.userId is unique).
ShopOwner(p) == p

\* Unit price of a product.
Price(p) == 50000 + (p - 1) * 10000

CartIds == 1..MaxCartLines

ItemIds == 1..(MaxOrders * Cardinality(Products))

OrderIds == 1..MaxOrders

\* The selectedItemIds of a checkout body: absent, or an array of ids.
NoSel == [given |-> FALSE, ids |-> {}]

Selections == {NoSel} \cup {[given |-> TRUE, ids |-> S] : S \in SUBSET CartIds}

\* Which of the required body fields of a checkout is missing.
Missing == {"none", "address", "shipping", "payment"}

(* ------------------------------- state ---------------------------------- *)

VARIABLES
    stock,       \* Product.stock, per product
    cart,        \* the CartItem table: a set of rows
    nextCartId,  \* the CartItem id sequence
    orders,      \* the Order table: orders[i] is the row with id i
    orderItems,  \* the OrderItem table: orderItems[i] is the row with id i
    reviews,     \* the Review table: reviews[i] is the row with id i
    reqs,        \* per request slot: the handler's position and its locals
    ev           \* the response sent by the last step (NoEv: none)

vars == <<stock, cart, nextCartId, orders, orderItems, reviews, reqs, ev>>

\* The tables a transaction works on.
DB == [stock |-> stock, cart |-> cart, orders |-> orders, orderItems |-> orderItems]

Idle == [pc |-> "idle", user |-> 0, id |-> 0, param |-> "", rating |-> 0,
         sel |-> NoSel, lines |-> {}, items |-> {}]

\* The statuses a seller may ask for, and one that is refused.
StatusParams == {"CANCELLED", "DELIVERED", "COMPLETED"}

NoEv == [op |-> "none", user |-> 0, id |-> 0, sel |-> NoSel, param |-> "", res |-> ""]

Event(op, user, id, sel, param, res) ==
    [op |-> op, user |-> user, id |-> id, sel |-> sel, param |-> param, res |-> res]

Init ==
    /\ stock = [p \in Products |-> InitStock]
    /\ cart = {}
    /\ nextCartId = 1
    /\ orders = <<>>
    /\ orderItems = <<>>
    /\ reviews = <<>>
    /\ reqs = [r \in Reqs |-> Idle]
    /\ ev = NoEv

(* ------------------------------ helpers --------------------------------- *)

\* Slot r takes the next request: the slots are interchangeable, and a new
\* request is handled in the lowest one that is free.
Accepts(r) ==
    /\ ev = NoEv
    /\ reqs[r].pc = "idle"
    /\ \A q \in Reqs : q < r => reqs[q].pc # "idle"

\* The handler in slot r is at position pc, and the last response is out.
At(r, pc) == ev = NoEv /\ reqs[r].pc = pc

\* The rows of a set in id order.
RECURSIVE ById(_)
ById(S) ==
    IF S = {} THEN <<>>
    ELSE LET m == CHOOSE x \in S : \A y \in S : x.id <= y.id
         IN  <<m>> \o ById(S \ {m})

RECURSIVE SumSeq(_)
SumSeq(s) == IF s = <<>> THEN 0 ELSE Head(s) + SumSeq(Tail(s))

\* The ids of the order items of order o.
ItemsOf(o) == {i \in DOMAIN orderItems : orderItems[i].orderId = o}

(* ------------------------------- cart ----------------------------------- *)

\* POST /api/cart/items: add a line, or increase the quantity of the line the
\* user already has for the product.
AddToCart(u, p, qty) ==
    /\ ev = NoEv
    /\ qty > 0
    /\ LET existing == {c \in cart : c.userId = u /\ c.productId = p}
       IN  IF existing # {}
           THEN LET c == CHOOSE c \in existing : TRUE
                IN  /\ c.quantity + qty <= MaxQty
                    /\ cart' = (cart \ {c}) \cup {[c EXCEPT !.quantity = @ + qty]}
                    /\ UNCHANGED nextCartId
           ELSE /\ nextCartId <= MaxCartLines
                /\ cart' = cart \cup {[id |-> nextCartId, userId |-> u,
                                       productId |-> p, quantity |-> qty]}
                /\ nextCartId' = nextCartId + 1
    /\ ev' = NoEv
    /\ UNCHANGED <<stock, orders, orderItems, reviews, reqs>>

(* ------------------------------ checkout -------------------------------- *)

\* The selected lines whoever owns them.
FindCartItemsOfAnyone(u, sel) ==
    {[id |-> c.id, productId |-> c.productId, quantity |-> c.quantity,
      price |-> Price(c.productId)] :
        c \in {c \in cart : sel.given => c.id \in sel.ids}}

\* prisma.cartItem.findMany({where: {userId, id in selectedItemIds?},
\* include: {product}}): the caller's lines, each with its product's price.
FindCartItems(u, sel) ==
    {[id |-> c.id, productId |-> c.productId, quantity |-> c.quantity,
      price |-> Price(c.productId)] :
        c \in {c \in cart : c.userId = u /\ (sel.given => c.id \in sel.ids)}}

\* The total as the sum of the unit prices, the quantities left out.
TotalOfPrices(lines) ==
    LET s == ById(lines)
    IN  SumSeq([i \in 1..Len(s) |-> s[i].price])

\* items.reduce((sum, ci) => sum + ci.quantity * ci.product.price, 0)
Total(lines) ==
    LET s == ById(lines)
    IN  SumSeq([i \in 1..Len(s) |-> s[i].quantity * s[i].price])

\* Checkouts that have read the cart and not yet run their transaction.
CheckoutsInFlight == Cardinality({r \in Reqs : reqs[r].pc = "co_tx"})

\* The check with only the address looked at.
OnlyAddressRequired(missing) == missing # "address"

\* !address || !shipping || !payment is false: no required field is missing.
RequiredFieldsPresent(missing) == missing = "none"

\* POST /api/orders/checkout up to the transaction: validate, load the lines.
\* selectedItemIds is not read when a required field is missing: such a request
\* is taken without it.
Checkout(r, u, missing, sel, cap) ==
    /\ Accepts(r)
    /\ ~RequiredFieldsPresent(missing) => sel = NoSel
    /\ IF ~RequiredFieldsPresent(missing)
       THEN /\ ev' = Event("checkout", u, 0, NoSel, missing, "MissingFields")
            /\ UNCHANGED reqs
       ELSE LET items == FindCartItems(u, sel)
            IN  IF items = {}
                THEN /\ ev' = Event("checkout", u, 0, sel, missing, "CartEmpty")
                     /\ UNCHANGED reqs
                ELSE /\ Len(orders) + CheckoutsInFlight < cap
                     /\ reqs' = [reqs EXCEPT ![r] =
                            [Idle EXCEPT !.pc = "co_tx", !.user = u, !.param = missing,
                                         !.sel = sel, !.lines = items]]
                     /\ ev' = NoEv
    /\ UNCHANGED <<stock, cart, nextCartId, orders, orderItems, reviews>>

\* Number of statements of the checkout transaction: the order create, then a
\* stock decrement and a cart line delete per line.
CheckoutLen(lines) == 1 + 2 * Len(lines)

\* The delete of a row that no longer exists passing in silence.
DeleteOfMissingRowPasses(db, lines, j) == FALSE

\* The j-th statement of the checkout transaction fails by itself:
\* tx.cartItem.delete throws when the row no longer exists.
CheckoutStmtFails(db, lines, j) ==
    /\ j > 1
    /\ j % 2 = 1
    /\ \A c \in db.cart : c.id # lines[j \div 2].id

\* tx.order.create({data: {userId, status: 'PAID', total, items: {create:
\* items.map(...)}}}): the order row and one item row per line.
CreateOrder(db, u, lines) ==
    [db EXCEPT
        !.orders = Append(@, [userId |-> u, status |-> "PAID",
                              total |-> Total({lines[i] : i \in 1..Len(lines)})]),
        !.orderItems = @ \o [i \in 1..Len(lines) |->
                                [orderId |-> Len(db.orders) + 1,
                                 productId |-> lines[i].productId,
                                 quantity |-> lines[i].quantity,
                                 price |-> lines[i].price,
                                 status |-> "PENDING"]]]

\* The decrement by one unit whatever the quantity of the line.
DecrementStockByOne(db, ci) == [db EXCEPT !.stock[ci.productId] = @ - 1]

\* tx.product.update({where: {id: ci.productId},
\* data: {stock: {decrement: ci.quantity}}})
DecrementStock(db, ci) == [db EXCEPT !.stock[ci.productId] = @ - ci.quantity]

\* The cart line left in the cart.
KeepCartItem(db, ci) == db

\* tx.cartItem.delete({where: {id: ci.id}})
DeleteCartItem(db, ci) == [db EXCEPT !.cart = {c \in @ : c.id # ci.id}]

\* The j-th statement of the checkout transaction.
CheckoutStmt(db, u, lines, j) ==
    IF j = 1 THEN CreateOrder(db, u, lines)
    ELSE IF j % 2 = 0 THEN DecrementStock(db, lines[j \div 2])
    ELSE DeleteCartItem(db, lines[j \div 2])

\* The statements j.. of the checkout transaction, run in order until one
\* fails; err is the statement hit by an unexpected database error (0: none).
RECURSIVE CheckoutRun(_, _, _, _, _)
CheckoutRun(db, u, lines, j, err) ==
    IF j > CheckoutLen(lines) THEN [db |-> db, ok |-> TRUE]
    ELSE IF j = err \/ CheckoutStmtFails(db, lines, j) THEN [db |-> db, ok |-> FALSE]
    ELSE CheckoutRun(CheckoutStmt(db, u, lines, j), u, lines, j + 1, err)

\* A transaction that throws leaves the tables as they were.
TransactionNoRollback(before, run) == run.db

\* prisma.$transaction(async (tx) => ...): all the statements, or none.
Transaction(before, run) == IF run.ok THEN run.db ELSE before

\* POST /api/orders/checkout, the transaction and the response.
CheckoutTx(r) ==
    /\ At(r, "co_tx")
    /\ LET lines == ById(reqs[r].lines)
       IN  \E err \in 0..CheckoutLen(lines) :
             LET run == CheckoutRun(DB, reqs[r].user, lines, 1, err)
                 db  == Transaction(DB, run)
             IN  /\ stock' = db.stock
                 /\ cart' = db.cart
                 /\ orders' = db.orders
                 /\ orderItems' = db.orderItems
                 /\ ev' = Event("checkout", reqs[r].user, 0, reqs[r].sel, "none",
                                IF run.ok THEN "OrderCreated" ELSE "InternalError")
    /\ reqs' = [reqs EXCEPT ![r] = Idle]
    /\ UNCHANGED <<nextCartId, reviews>>

(* --------------------------- complete item ------------------------------ *)

\* The rows of the order items of order o, as a query returns them.
OrderItemRows(o) ==
    {[id |-> i, productId |-> orderItems[i].productId,
      quantity |-> orderItems[i].quantity, status |-> orderItems[i].status] :
        i \in ItemsOf(o)}

\* PATCH /api/orders/items/:id/complete up to the first write: load the item
\* with its order and the order's items, check the owner and the status.
CompleteItem(r, u, id) ==
    /\ Accepts(r)
    /\ IF id \notin DOMAIN orderItems \/ orders[orderItems[id].orderId].userId # u
       THEN /\ ev' = Event("complete", u, id, NoSel, "", "ItemNotFound")
            /\ UNCHANGED reqs
       ELSE IF orderItems[id].status # "PENDING"
       THEN /\ ev' = Event("complete", u, id, NoSel, "", "InvalidTransition")
            /\ UNCHANGED reqs
       ELSE /\ reqs' = [reqs EXCEPT ![r] =
                   [Idle EXCEPT !.pc = "cp_item", !.user = u, !.id = id,
                                !.items = OrderItemRows(orderItems[id].orderId)]]
            /\ ev' = NoEv
    /\ UNCHANGED <<stock, cart, nextCartId, orders, orderItems, reviews>>

\* item.order.items.some((oi) => oi.id !== id && oi.status !== 'COMPLETED'),
\* on the items as they were loaded.
StillPending(items, id) == \E oi \in items : oi.id # id /\ oi.status # "COMPLETED"

\* prisma.orderItem.update({where: {id}, data: {status: 'COMPLETED'}}); the
\* response follows when a sibling was not COMPLETED when loaded.
CompleteUpdateItem(r) ==
    /\ At(r, "cp_item")
    /\ orderItems' = [orderItems EXCEPT ![reqs[r].id].status = "COMPLETED"]
    /\ IF StillPending(reqs[r].items, reqs[r].id)
       THEN /\ reqs' = [reqs EXCEPT ![r] = Idle]
            /\ ev' = Event("complete", reqs[r].user, reqs[r].id, NoSel, "", "ItemCompleted")
       ELSE /\ reqs' = [reqs EXCEPT ![r].pc = "cp_order"]
            /\ ev' = NoEv
    /\ UNCHANGED <<stock, cart, nextCartId, orders, reviews>>

\* prisma.order.update({where: {id: item.orderId}, data: {status: 'COMPLETED'}})
\* and the response.
CompleteUpdateOrder(r) ==
    /\ At(r, "cp_order")
    /\ orders' = [orders EXCEPT ![orderItems[reqs[r].id].orderId].status = "COMPLETED"]
    /\ reqs' = [reqs EXCEPT ![r] = Idle]
    /\ ev' = Event("complete", reqs[r].user, reqs[r].id, NoSel, "", "ItemCompleted")
    /\ UNCHANGED <<stock, cart, nextCartId, orderItems, reviews>>

(* -------------------------- seller fulfilment --------------------------- *)

\* The item looked up by its id alone.
SellerFindsAnyItem(u, id) == id \in DOMAIN orderItems

\* prisma.orderItem.findFirst({where: {id, product: {shop: {userId}}}})
SellerFindsItem(u, id) ==
    /\ id \in DOMAIN orderItems
    /\ ShopOwner(orderItems[id].productId) = u

\* PATCH /api/seller-fulfillment/order-items/:id/status up to the first write.
SellerStatus(r, u, id, statusParam) ==
    /\ Accepts(r)
    /\ IF statusParam \notin {"CANCELLED", "DELIVERED"}
       THEN /\ ev' = Event("status", u, id, NoSel, statusParam, "StatusNotAllowed")
            /\ UNCHANGED reqs
       ELSE IF ~SellerFindsItem(u, id)
       THEN /\ ev' = Event("status", u, id, NoSel, statusParam, "ItemNotFound")
            /\ UNCHANGED reqs
       ELSE IF orderItems[id].status # "PENDING"
       THEN /\ ev' = Event("status", u, id, NoSel, statusParam, "InvalidTransition")
            /\ UNCHANGED reqs
       ELSE /\ reqs' = [reqs EXCEPT ![r] =
                   [Idle EXCEPT !.pc = "ss_item", !.user = u, !.id = id,
                                !.param = statusParam,
                                !.items = {[id |-> id,
                                            productId |-> orderItems[id].productId,
                                            quantity |-> orderItems[id].quantity,
                                            status |-> orderItems[id].status]}]]
            /\ ev' = NoEv
    /\ UNCHANGED <<stock, cart, nextCartId, orders, orderItems, reviews>>

\* prisma.orderItem.update({where: {id}, data: {status: statusParam}}); the
\* response follows unless the stock is to be returned.
SellerStatusUpdateItem(r) ==
    /\ At(r, "ss_item")
    /\ orderItems' = [orderItems EXCEPT ![reqs[r].id].status = reqs[r].param]
    /\ IF reqs[r].param = "CANCELLED"
       THEN /\ reqs' = [reqs EXCEPT ![r].pc = "ss_stock"]
            /\ ev' = NoEv
       ELSE /\ reqs' = [reqs EXCEPT ![r] = Idle]
            /\ ev' = Event("status", reqs[r].user, reqs[r].id, NoSel, reqs[r].param,
                           "StatusUpdated")
    /\ UNCHANGED <<stock, cart, nextCartId, orders, reviews>>

\* The increment by one unit whatever the quantity of the item.
IncrementStockByOne(db, oi) == [db EXCEPT !.stock[oi.productId] = @ + 1]

\* product.update({where: {id: oi.productId},
\* data: {stock: {increment: oi.quantity}}})
IncrementStock(db, oi) == [db EXCEPT !.stock[oi.productId] = @ + oi.quantity]

\* prisma.product.update({where: {id: item.productId},
\* data: {stock: {increment: item.quantity}}}) and the response.
SellerStatusRestock(r) ==
    /\ At(r, "ss_stock")
    /\ LET item == CHOOSE oi \in reqs[r].items : TRUE
       IN  stock' = IncrementStock(DB, item).stock
    /\ reqs' = [reqs EXCEPT ![r] = Idle]
    /\ ev' = Event("status", reqs[r].user, reqs[r].id, NoSel, reqs[r].param, "StatusUpdated")
    /\ UNCHANGED <<cart, nextCartId, orders, orderItems, reviews>>

\* PATCH /api/seller-fulfillment/order-items/:id/deliver up to the write.
Deliver(r, u, id) ==
    /\ Accepts(r)
    /\ IF ~SellerFindsItem(u, id)
       THEN /\ ev' = Event("deliver", u, id, NoSel, "", "ItemNotFound")
            /\ UNCHANGED reqs
       ELSE IF orderItems[id].status = "DELIVERED"
       THEN /\ ev' = Event("deliver", u, id, NoSel, orderItems[id].status, "AlreadyDelivered")
            /\ UNCHANGED reqs
       ELSE IF orderItems[id].status # "PENDING"
       THEN /\ ev' = Event("deliver", u, id, NoSel, orderItems[id].status, "InvalidTransition")
            /\ UNCHANGED reqs
       ELSE /\ reqs' = [reqs EXCEPT ![r] =
                   [Idle EXCEPT !.pc = "dl_item", !.user = u, !.id = id]]
            /\ ev' = NoEv
    /\ UNCHANGED <<stock, cart, nextCartId, orders, orderItems, reviews>>

\* prisma.orderItem.update({where: {id}, data: {status: DELIVERED}}) and the
\* response.
DeliverUpdateItem(r) ==
    /\ At(r, "dl_item")
    /\ orderItems' = [orderItems EXCEPT ![reqs[r].id].status = "DELIVERED"]
    /\ reqs' = [reqs EXCEPT ![r] = Idle]
    /\ ev' = Event("deliver", reqs[r].user, reqs[r].id, NoSel, "", "Delivered")
    /\ UNCHANGED <<stock, cart, nextCartId, orders, reviews>>

(* ------------------------------ get order ------------------------------- *)

\* The order looked up by its id alone.
AnyOrder(u, id) == id \in DOMAIN orders

\* prisma.order.findFirst({where: {id, userId: req.user.userId}}) finds a row.
OwnOrder(u, id) == id \in DOMAIN orders /\ orders[id].userId = u

\* GET /api/orders/:id
GetOrder(r, u, id) ==
    /\ Accepts(r)
    /\ ev' = Event("get", u, id, NoSel, "",
                   IF OwnOrder(u, id) THEN "OK" ELSE "OrderNotFound")
    /\ UNCHANGED <<stock, cart, nextCartId, orders, orderItems, reviews, reqs>>

(* ---------------------------- cancel order ------------------------------ *)

\* The handler with the update of the order placed ahead of the test for a
\* COMPLETED item.
CancelOrderWritesFirst(r, u, id) ==
    /\ Accepts(r)
    /\ IF id \notin DOMAIN orders \/ orders[id].userId # u
       THEN /\ ev' = Event("cancel", u, id, NoSel, "", "OrderNotFound")
            /\ UNCHANGED <<reqs, orders>>
       ELSE IF \E oi \in OrderItemRows(id) : oi.status = "COMPLETED"
       THEN /\ ev' = Event("cancel", u, id, NoSel, "", "HasCompleted")
            /\ orders' = [orders EXCEPT ![id].status = "CANCELLED"]
            /\ UNCHANGED reqs
       ELSE /\ reqs' = [reqs EXCEPT ![r] =
                   [Idle EXCEPT !.pc = "cn_tx", !.user = u, !.id = id,
                                !.items = OrderItemRows(id)]]
            /\ ev' = NoEv
            /\ UNCHANGED orders
    /\ UNCHANGED <<stock, cart, nextCartId, orderItems, reviews>>

\* PATCH /api/orders/:id/cancel up to the transaction: load the caller's order
\* with its items, refuse when one of them is COMPLETED.
CancelOrder(r, u, id) ==
    /\ Accepts(r)
    /\ IF id \notin DOMAIN orders \/ orders[id].userId # u
       THEN /\ ev' = Event("cancel", u, id, NoSel, "", "OrderNotFound")
            /\ UNCHANGED reqs
       ELSE IF \E oi \in OrderItemRows(id) : oi.status = "COMPLETED"
       THEN /\ ev' = Event("cancel", u, id, NoSel, "", "HasCompleted")
            /\ UNCHANGED reqs
       ELSE /\ reqs' = [reqs EXCEPT ![r] =
                   [Idle EXCEPT !.pc = "cn_tx", !.user = u, !.id = id,
                                !.items = OrderItemRows(id)]]
            /\ ev' = NoEv
    /\ UNCHANGED <<stock, cart, nextCartId, orders, orderItems, reviews>>

\* Number of statements of the cancel transaction: an item update and a stock
\* increment per item, then the order update.
CancelLen(items) == 2 * Len(items) + 1

\* The item left as it is.
LeaveItem(db, oi) == db

\* tx.orderItem.update({where: {id: oi.id}, data: {status: 'CANCELLED'}})
CancelItem(db, oi) == [db EXCEPT !.orderItems[oi.id].status = "CANCELLED"]

\* The j-th statement of the cancel transaction; the two statements of an
\* item that was not PENDING when loaded are skipped.
CancelStmt(db, o, items, j) ==
    IF j = CancelLen(items)
    THEN [db EXCEPT !.orders[o].status = "CANCELLED"]
    ELSE LET oi == items[(j + 1) \div 2]
         IN  IF oi.status # "PENDING" THEN db
             ELSE IF j % 2 = 1
             THEN CancelItem(db, oi)
             ELSE IncrementStock(db, oi)

\* The statements j.. of the cancel transaction, run in order; err is the
\* statement hit by an unexpected database error (0: none).
RECURSIVE CancelRun(_, _, _, _, _)
CancelRun(db, o, items, j, err) ==
    IF j > CancelLen(items) THEN [db |-> db, ok |-> TRUE]
    ELSE IF j = err THEN [db |-> db, ok |-> FALSE]
    ELSE CancelRun(CancelStmt(db, o, items, j), o, items, j + 1, err)

\* PATCH /api/orders/:id/cancel, the transaction and the response.
CancelTx(r) ==
    /\ At(r, "cn_tx")
    /\ LET items == ById(reqs[r].items)
       IN  \E err \in 0..CancelLen(items) :
             LET run == CancelRun(DB, reqs[r].id, items, 1, err)
                 db  == Transaction(DB, run)
             IN  /\ stock' = db.stock
                 /\ cart' = db.cart
                 /\ orders' = db.orders
                 /\ orderItems' = db.orderItems
                 /\ ev' = Event("cancel", reqs[r].user, reqs[r].id, NoSel, "",
                                IF run.ok THEN "OrderCancelled" ELSE "InternalError")
    /\ reqs' = [reqs EXCEPT ![r] = Idle]
    /\ UNCHANGED <<nextCartId, reviews>>

(* ------------------------------- reviews -------------------------------- *)

\* The productId of a review body: a product, or 0 for an absent or
\* unparsable one (toInt).
ReviewProducts == Products \cup {0}

\* The rating of a review body: the ends of 1..5 and the values around them.
Ratings == {0, 1, 5, 6}

\* !productId || rating < 1 || rating > 5 is false.
ValidReview(p, rating) == p # 0 /\ rating >= 1 /\ rating <= 5

\* The purchase looked for with the status of the order left out.
PurchasedAnyStatus(u, p) ==
    \E i \in DOMAIN orderItems :
        /\ orderItems[i].productId = p
        /\ orders[orderItems[i].orderId].userId = u

\* prisma.orderItem.findFirst({where: {productId, order: {userId, status:
\* COMPLETED}}}) finds a row.
Purchased(u, p) ==
    \E i \in DOMAIN orderItems :
        /\ orderItems[i].productId = p
        /\ orders[orderItems[i].orderId].userId = u
        /\ orders[orderItems[i].orderId].status = "COMPLETED"

\* POST /api/reviews up to the second query: validate the body, look for a
\* completed purchase.
Review(r, u, p, rating) ==
    /\ Accepts(r)
    /\ IF ~ValidReview(p, rating)
       THEN /\ ev' = Event("review", u, p, NoSel, ToString(rating), "InvalidInput")
            /\ UNCHANGED reqs
       ELSE IF ~Purchased(u, p)
       THEN /\ ev' = Event("review", u, p, NoSel, "", "NotEligible")
            /\ UNCHANGED reqs
       ELSE /\ reqs' = [reqs EXCEPT ![r] =
                   [Idle EXCEPT !.pc = "rv_find", !.user = u, !.id = p,
                                !.rating = rating]]
            /\ ev' = NoEv
    /\ UNCHANGED <<stock, cart, nextCartId, orders, orderItems, reviews>>

\* prisma.review.findFirst({where: {userId, productId}}): the ids found.
ExistingReview(u, p) ==
    {[id |-> k] : k \in {k \in DOMAIN reviews :
                            reviews[k].userId = u /\ reviews[k].productId = p}}

\* POST /api/reviews, the query for the review the user already has.
ReviewFindExisting(r) ==
    /\ At(r, "rv_find")
    /\ reqs' = [reqs EXCEPT ![r].pc = "rv_save",
                            ![r].items = ExistingReview(reqs[r].user, reqs[r].id)]
    /\ ev' = NoEv
    /\ UNCHANGED <<stock, cart, nextCartId, orders, orderItems, reviews>>

\* POST /api/reviews, the write and the response: prisma.review.update of the
\* row found, or prisma.review.create, which the unique index on (userId,
\* productId) refuses when the pair has a row by now (error P2002, answered
\* 500 by the catch block).
ReviewSave(r) ==
    /\ At(r, "rv_save")
    /\ LET u == reqs[r].user
           p == reqs[r].id
       IN  IF reqs[r].items # {}
           THEN LET existing == CHOOSE e \in reqs[r].items : TRUE
                IN  /\ reviews' = [reviews EXCEPT ![existing.id].rating = reqs[r].rating]
                    /\ ev' = Event("review", u, p, NoSel, "", "ReviewSaved")
           ELSE IF ExistingReview(u, p) # {}
           THEN /\ reviews' = reviews
                /\ ev' = Event("review", u, p, NoSel, "P2002", "InternalError")
           ELSE /\ reviews' = Append(reviews, [userId |-> u, productId |-> p,
                                               rating |-> reqs[r].rating])
                /\ ev' = Event("review", u, p, NoSel, "", "ReviewSaved")
    /\ reqs' = [reqs EXCEPT ![r] = Idle]
    /\ UNCHANGED <<stock, cart, nextCartId, orders, orderItems>>

(* ---------------------------- failed calls ------------------------------ *)

\* The operation a handler position belongs to.
OpOf(pc) ==
    CASE pc \in {"cp_item", "cp_order"} -> "complete"
      [] pc \in {"ss_item", "ss_stock"} -> "status"
      [] pc = "dl_item" -> "deliver"
      [] pc \in {"rv_find", "rv_save"} -> "review"
      [] OTHER -> "none"

\* The awaited database call of a handler outside a transaction throws: the
\* catch block answers 500 and nothing the handler wrote before is undone.
Fail(r) ==
    /\ ev = NoEv
    /\ OpOf(reqs[r].pc) # "none"
    /\ reqs' = [reqs EXCEPT ![r] = Idle]
    /\ ev' = Event(OpOf(reqs[r].pc), reqs[r].user, reqs[r].id, NoSel, reqs[r].param,
                   "InternalError")
    /\ UNCHANGED <<stock, cart, nextCartId, orders, orderItems, reviews>>

(* --------------------------- specification ------------------------------ *)

\* The response of the last step has been written out.
Flush ==
    /\ ev # NoEv
    /\ ev' = NoEv
    /\ UNCHANGED <<stock, cart, nextCartId, orders, orderItems, reviews, reqs>>

\* Every handler that writes the order ledger, for one buyer; a response is
\* written out before the server takes its next step.
Next ==
    \/ \E u \in Buyers, p \in Products, qty \in 1..MaxQty : AddToCart(u, p, qty)
    \/ \E r \in Reqs, u \in Buyers, m \in Missing, sel \in Selections :
          Checkout(r, u, m, sel, MaxOrders)
    \/ \E r \in Reqs : CheckoutTx(r)
    \/ \E r \in Reqs, u \in Users, id \in ItemIds : CompleteItem(r, u, id)
    \/ \E r \in Reqs : CompleteUpdateItem(r)
    \/ \E r \in Reqs : CompleteUpdateOrder(r)
    \/ \E r \in Reqs, u \in Users, id \in ItemIds, st \in StatusParams :
          SellerStatus(r, u, id, st)
    \/ \E r \in Reqs : SellerStatusUpdateItem(r)
    \/ \E r \in Reqs : SellerStatusRestock(r)
    \/ \E r \in Reqs, u \in Users, id \in ItemIds : Deliver(r, u, id)
    \/ \E r \in Reqs : DeliverUpdateItem(r)
    \/ \E r \in Reqs, u \in Users, id \in OrderIds : CancelOrder(r, u, id)
    \/ \E r \in Reqs : CancelTx(r)
    \/ \E r \in Reqs : Fail(r)
    \/ Flush

Spec == Init /\ [][Next]_vars

\* Every handler, the reviews and the order lookup with them, for one buyer
\* who buys one product.
NextReviews ==
    \/ \E u \in Buyers, p \in Bought, qty \in 1..MaxQty : AddToCart(u, p, qty)
    \/ \E r \in Reqs, u \in Buyers, m \in Missing, sel \in Selections :
          Checkout(r, u, m, sel, MaxOrders)
    \/ \E r \in Reqs : CheckoutTx(r)
    \/ \E r \in Reqs, u \in Users, id \in ItemIds : CompleteItem(r, u, id)
    \/ \E r \in Reqs : CompleteUpdateItem(r)
    \/ \E r \in Reqs : CompleteUpdateOrder(r)
    \/ \E r \in Reqs, u \in Users, id \in ItemIds, st \in StatusParams :
          SellerStatus(r, u, id, st)
    \/ \E r \in Reqs : SellerStatusUpdateItem(r)
    \/ \E r \in Reqs : SellerStatusRestock(r)
    \/ \E r \in Reqs, u \in Users, id \in ItemIds : Deliver(r, u, id)
    \/ \E r \in Reqs : DeliverUpdateItem(r)
    \/ \E r \in Reqs, u \in Users, id \in OrderIds : CancelOrder(r, u, id)
    \/ \E r \in Reqs : CancelTx(r)
    \/ \E r \in Reqs, u \in Users, id \in OrderIds : GetOrder(r, u, id)
    \/ \E r \in Reqs, u \in Users, p \in ReviewProducts, rating \in Ratings :
          Review(r, u, p, rating)
    \/ \E r \in Reqs : ReviewFindExisting(r)
    \/ \E r \in Reqs : ReviewSave(r)
    \/ \E r \in Reqs : Fail(r)
    \/ Flush

SpecReviews == Init /\ [][NextReviews]_vars

\* The cart and the checkout alone, for every user.
NextCheckout ==
    \/ \E u \in Users, p \in Products, qty \in 1..MaxQty : AddToCart(u, p, qty)
    \/ \E r \in Reqs, u \in Users, m \in Missing, sel \in Selections :
          Checkout(r, u, m, sel, MaxCheckouts)
    \/ \E r \in Reqs : CheckoutTx(r)
    \/ Flush

SpecCheckout == Init /\ [][NextCheckout]_vars

(* ------------------------------- claims --------------------------------- *)

\* The tables of the order ledger, the stock and the cart.
tables == <<stock, cart, orders, orderItems>>

\* Sum of price * quantity over the items of order o.
OrderSum(items, o) ==
    SumSeq([k \in 1..Len(items) |->
               IF items[k].orderId = o THEN items[k].price * items[k].quantity ELSE 0])

\* Sum of the quantities of product p over the items after position from.
NewItemQty(items, from, p) ==
    SumSeq([k \in 1..(Len(items) - from) |->
               IF items[from + k].productId = p THEN items[from + k].quantity ELSE 0])

\* Every item of order o is COMPLETED.
AllCompleted(o) == \A i \in ItemsOf(o) : orderItems[i].status = "COMPLETED"

\* C1: in every state the total of every order is the sum of price * quantity
\* over its items, and no step changes the total of an existing order.
C1_TotalIsSumOfItems ==
    /\ [](\A o \in DOMAIN orders : orders[o].total = OrderSum(orderItems, o))
    /\ [][\A o \in DOMAIN orders : orders'[o].total = orders[o].total]_vars

\* An order of two items, one of them of quantity two, that was cancelled.
C1_Witness ==
    /\ Len(orders) = 1
    /\ Cardinality(ItemsOf(1)) = 2
    /\ \E i \in ItemsOf(1) : orderItems[i].quantity = 2
    /\ orders[1].status = "CANCELLED"

\* C2: the step that creates an order lowers the stock of every product by the
\* sum of the quantities of the order items it creates for that product (by
\* nothing for a product with no such item).
C2_StockDecrement ==
    [][Len(orders') = Len(orders) + 1 =>
         \A p \in Products :
            stock'[p] = stock[p] - NewItemQty(orderItems', Len(orderItems), p)]_vars

\* A checkout of two lines has just succeeded and lowered both stocks.
C2_Witness ==
    /\ ev.op = "checkout" /\ ev.res = "OrderCreated"
    /\ Len(orders) = 1 /\ Len(orderItems) = 2
    /\ \A p \in Products : stock[p] < InitStock

\* C3: the step of a checkout that succeeds adds exactly one order, PAID and
\* owned by the caller, and one PENDING item per line the checkout loaded, with
\* the line's product and quantity and the product's price; every such line was
\* a cart line of the caller and none of them is in the cart afterwards; the
\* rows that existed are unchanged.
C3_CheckoutCreatesOrder ==
    [][Len(orders') # Len(orders) =>
         \E r \in Reqs :
            LET lines == ById(reqs[r].lines)
                n == Len(orderItems)
                o == Len(orders) + 1
            IN  /\ reqs[r].pc = "co_tx" /\ reqs'[r].pc = "idle"
                /\ ev'.op = "checkout" /\ ev'.res = "OrderCreated"
                /\ Len(orders') = o
                /\ SubSeq(orders', 1, Len(orders)) = orders
                /\ orders'[o].userId = reqs[r].user
                /\ orders'[o].status = "PAID"
                /\ Len(orderItems') = n + Len(lines)
                /\ SubSeq(orderItems', 1, n) = orderItems
                /\ \A k \in 1..Len(lines) :
                      /\ orderItems'[n + k].orderId = o
                      /\ orderItems'[n + k].status = "PENDING"
                      /\ orderItems'[n + k].productId = lines[k].productId
                      /\ orderItems'[n + k].quantity = lines[k].quantity
                      /\ orderItems'[n + k].price = Price(lines[k].productId)
                      /\ \E c \in cart : /\ c.id = lines[k].id
                                         /\ c.userId = reqs[r].user
                                         /\ c.productId = lines[k].productId
                      /\ \A c \in cart' : c.id # lines[k].id
                /\ cart' \subseteq cart]_vars

\* A checkout of two lines of different quantities has just succeeded.
C3_Witness ==
    /\ ev.op = "checkout" /\ ev.res = "OrderCreated"
    /\ Len(orders) = 1 /\ Len(orderItems) = 2
    /\ orderItems[1].quantity # orderItems[2].quantity
    /\ cart = {}

\* C4: a checkout whose transaction fails changes no order, no order item, no
\* stock and no cart line.
C4_AllOrNothing ==
    [][(ev'.op = "checkout" /\ ev'.res = "InternalError") => UNCHANGED tables]_vars

\* A checkout has just failed in its transaction: the other checkout of the
\* same lines had consumed them.
C4_Witness ==
    /\ ev.op = "checkout" /\ ev.res = "InternalError"
    /\ Len(orders) = 1
    /\ cart = {}

\* C5: no product's stock is ever negative.
C5_StockNonNegative == \A p \in Products : stock[p] >= 0

\* C6: a checkout answered 'Missing required fields' has a required field
\* missing and one answered 'Cart is empty' has all of them and loads no cart
\* line, and neither changes a table or starts a transaction; a checkout that
\* goes on to its transaction misses no field and has loaded at least one line.
C6_CheckoutRejections ==
    [][/\ ev'.res = "MissingFields" =>
            /\ ev'.op = "checkout"
            /\ ev'.param # "none"
            /\ UNCHANGED <<tables, reqs>>
       /\ ev'.res = "CartEmpty" =>
            /\ ev'.op = "checkout"
            /\ ev'.param = "none"
            /\ FindCartItems(ev'.user, ev'.sel) = {}
            /\ UNCHANGED <<tables, reqs>>
       /\ \A r \in Reqs :
            (reqs'[r].pc = "co_tx" /\ reqs[r].pc # "co_tx") =>
                /\ reqs'[r].param = "none"
                /\ reqs'[r].lines # {}
                /\ UNCHANGED tables]_vars

\* A checkout whose lines were all filtered out by selectedItemIds has just
\* been refused.
C6_Witness ==
    /\ ev.op = "checkout" /\ ev.res = "CartEmpty"
    /\ ev.sel.given
    /\ \E c \in cart : c.userId = ev.user

\* C7: an item becomes COMPLETED only in a step in which its stored status is
\* PENDING; a complete request on an item of the caller that is not PENDING is
\* answered 'Invalid status transition' and changes no item.
C7_CompletedOnlyFromPending ==
    [][/\ \A i \in DOMAIN orderItems :
            (orderItems'[i].status = "COMPLETED" /\ orderItems[i].status # "COMPLETED")
                => orderItems[i].status = "PENDING"
       /\ (ev'.op = "complete" /\ ev'.res = "InvalidTransition") =>
            /\ orderItems[ev'.id].status \in {"DELIVERED", "CANCELLED", "COMPLETED"}
            /\ UNCHANGED tables
       /\ \A r \in Reqs :
            (reqs'[r].pc = "cp_item" /\ reqs[r].pc # "cp_item") =>
                orderItems[reqs'[r].id].status = "PENDING"]_vars

\* C8: in no state is every item of an order COMPLETED while the order is PAID.
C8_NoPaidOrderWithAllItemsCompleted ==
    \A o \in DOMAIN orders : AllCompleted(o) => orders[o].status # "PAID"

\* C9: when a complete request has just succeeded, no other complete request
\* is under way and every item of the order is COMPLETED, the order is
\* COMPLETED.
C9_CompletesAgreeOnOrder ==
    (/\ ev.op = "complete" /\ ev.res = "ItemCompleted"
     /\ \A r \in Reqs : reqs[r].pc \notin {"cp_item", "cp_order"}
     /\ AllCompleted(orderItems[ev.id].orderId))
        => orders[orderItems[ev.id].orderId].status = "COMPLETED"

\* C10: an order is COMPLETED only if every one of its items is COMPLETED.
C10_CompletedOrderHasCompletedItems ==
    \A o \in DOMAIN orders : orders[o].status = "COMPLETED" => AllCompleted(o)

\* C11: the step in which a cancel-order request writes changes no order, no
\* order item and no stock when the order has a COMPLETED item at that moment.
C11_CancelSparesCompletedOrder ==
    [][\A r \in Reqs :
          (/\ reqs[r].pc = "cn_tx" /\ reqs'[r].pc = "idle"
           /\ \E i \in ItemsOf(reqs[r].id) : orderItems[i].status = "COMPLETED")
              => UNCHANGED tables]_vars

\* C12: the step of a cancel-order request that succeeds on an order whose
\* items are all PENDING or DELIVERED sets every PENDING item of the order to
\* CANCELLED, adds the quantity of each such item to the stock of its product,
\* and sets the order to CANCELLED, in that one step.
C12_CancelOrderEffect ==
    [][(/\ ev'.op = "cancel" /\ ev'.res = "OrderCancelled"
        /\ \A i \in ItemsOf(ev'.id) : orderItems[i].status \in {"PENDING", "DELIVERED"})
          => /\ orders'[ev'.id].status = "CANCELLED"
             /\ \A i \in ItemsOf(ev'.id) :
                   orderItems[i].status = "PENDING" =>
                      /\ orderItems'[i].status = "CANCELLED"
                      /\ stock'[orderItems[i].productId] =
                            stock[orderItems[i].productId] + orderItems[i].quantity
             /\ cart' = cart]_vars

\* A cancel-order has just succeeded on an order of a PENDING item of two units
\* and a DELIVERED item: the first is CANCELLED and its units are back.
C12_Witness ==
    /\ ev.op = "cancel" /\ ev.res = "OrderCancelled"
    /\ orders[ev.id].status = "CANCELLED"
    /\ \E i, j \in ItemsOf(ev.id) :
          /\ orderItems[i].status = "CANCELLED" /\ orderItems[i].quantity = 2
          /\ stock[orderItems[i].productId] = InitStock
          /\ orderItems[j].status = "DELIVERED"
          /\ stock[orderItems[j].productId] < InitStock

\* C13: the step of a cancel-order request that succeeds sets the order to
\* CANCELLED and leaves every item of it that is DELIVERED as it is: the item
\* stays DELIVERED and the stock of its product does not change.
C13_CancelLeavesDelivered ==
    [][(ev'.op = "cancel" /\ ev'.res = "OrderCancelled")
          => /\ orders'[ev'.id].status = "CANCELLED"
             /\ \A i \in ItemsOf(ev'.id) :
                   orderItems[i].status = "DELIVERED" =>
                      /\ orderItems'[i].status = "DELIVERED"
                      /\ stock'[orderItems[i].productId] = stock[orderItems[i].productId]]_vars

\* C14: every change of the stored status of an order item starts from
\* PENDING.
C14_StatusChangesOnlyFromPending ==
    [][\A i \in DOMAIN orderItems :
          orderItems'[i].status # orderItems[i].status
              => orderItems[i].status = "PENDING"]_vars

\* C15: the quantity of an order item leaves the stock once, at checkout, and
\* comes back at most once, so no product ever has more units in stock than it
\* started with.
C15_NoUnitReturnedTwice == \A p \in Products : stock[p] <= InitStock

\* C16: a deliver request succeeds only in a step in which the stored status
\* of the item is PENDING and the caller owns the shop of its product, and the
\* step sets the item to DELIVERED; as no step sets an item back to PENDING,
\* at most one deliver request per item succeeds.
C16_DeliverOnlyFromPending ==
    [][(ev'.op = "deliver" /\ ev'.res = "Delivered")
          => /\ orderItems[ev'.id].status = "PENDING"
             /\ ShopOwner(orderItems[ev'.id].productId) = ev'.user
             /\ orderItems'[ev'.id].status = "DELIVERED"]_vars

\* C17: a seller status request goes on to its writes only for an item of the
\* seller's shop whose stored status is PENDING; its first write sets the item
\* to the status asked for and touches nothing else; its second write, made
\* only for CANCELLED, adds exactly the item's quantity to the stock of the
\* item's product and touches nothing else, and only then is a cancel answered
\* as done; a request on an item that is not PENDING is answered 'Invalid
\* status transition' and changes no item and no stock.
C17_SellerCancelRestocks ==
    [][/\ \A r \in Reqs :
            (reqs'[r].pc = "ss_item" /\ reqs[r].pc # "ss_item") =>
                /\ orderItems[reqs'[r].id].status = "PENDING"
                /\ ShopOwner(orderItems[reqs'[r].id].productId) = reqs'[r].user
                /\ reqs'[r].param \in {"CANCELLED", "DELIVERED"}
                /\ UNCHANGED tables
       /\ \A r \in Reqs :
            (reqs[r].pc = "ss_item" /\ reqs'[r].pc # "ss_item" /\ ev'.res # "InternalError") =>
                /\ orderItems' = [orderItems EXCEPT ![reqs[r].id].status = reqs[r].param]
                /\ UNCHANGED <<stock, orders, cart>>
                /\ (reqs[r].param = "CANCELLED") <=> (reqs'[r].pc = "ss_stock")
       /\ \A r \in Reqs :
            (reqs[r].pc = "ss_stock" /\ reqs'[r].pc # "ss_stock" /\ ev'.res # "InternalError") =>
                /\ stock' = [stock EXCEPT ![orderItems[reqs[r].id].productId] =
                                              @ + orderItems[reqs[r].id].quantity]
                /\ UNCHANGED <<orderItems, orders, cart>>
       /\ (ev'.op = "status" /\ ev'.res = "StatusUpdated" /\ ev'.param = "CANCELLED") =>
            \E r \in Reqs : reqs[r].pc = "ss_stock" /\ reqs'[r].pc = "idle"
       /\ (ev'.op = "status" /\ ev'.res = "InvalidTransition") =>
            /\ orderItems[ev'.id].status # "PENDING"
            /\ UNCHANGED tables]_vars

\* A seller has just cancelled an item of two units: the item is CANCELLED and
\* the two units are back in stock.
C17_Witness ==
    /\ ev.op = "status" /\ ev.res = "StatusUpdated" /\ ev.param = "CANCELLED"
    /\ orderItems[ev.id].status = "CANCELLED"
    /\ orderItems[ev.id].quantity = 2
    /\ stock[orderItems[ev.id].productId] = InitStock

\* The units of product p held by order items that are not CANCELLED.
HeldQty(p) ==
    SumSeq([k \in 1..Len(orderItems) |->
               IF orderItems[k].productId = p /\ orderItems[k].status # "CANCELLED"
               THEN orderItems[k].quantity ELSE 0])

\* C18: once no request is under way, the quantity of every CANCELLED item is
\* back in the stock of its product: the stock is not below the initial stock
\* less the units held by the items that are not CANCELLED.
C18_CancelledItemIsRestocked ==
    (\A r \in Reqs : reqs[r].pc = "idle")
        => \A p \in Products : stock[p] >= InitStock - HeldQty(p)

\* The answers that refuse a request for a business rule.
Rejections ==
    {"MissingFields", "CartEmpty", "ItemNotFound", "OrderNotFound",
     "InvalidTransition", "StatusNotAllowed", "AlreadyDelivered", "HasCompleted",
     "InvalidInput", "NotEligible"}

\* C19: a request refused for a business rule is refused in its first step,
\* and that step changes no order, order item, stock, cart line or review.
C19_RejectedBeforeAnyWrite ==
    [][ev'.res \in Rejections => UNCHANGED <<tables, reviews, nextCartId, reqs>>]_vars

\* A review has just been refused as not eligible, for a product the user has
\* ordered in an order that is not COMPLETED, while a review exists.
C19_Witness ==
    /\ ev.op = "review" /\ ev.res = "NotEligible"
    /\ \E i \in DOMAIN orderItems :
          /\ orderItems[i].productId = ev.id
          /\ orders[orderItems[i].orderId].userId = ev.user
          /\ orders[orderItems[i].orderId].status = "CANCELLED"
    /\ reviews # <<>>

\* User u has an order item of product p in a COMPLETED order of theirs.
HasCompletedPurchase(u, p) ==
    \E i \in DOMAIN orderItems :
        /\ orderItems[i].productId = p
        /\ orders[orderItems[i].orderId].userId = u
        /\ orders[orderItems[i].orderId].status = "COMPLETED"

\* C20: a review request is refused as invalid only for a missing product or
\* a rating outside 1..5; with a valid body it is refused as not eligible
\* exactly when the user has no order item of the product in a COMPLETED order
\* of theirs, and goes on to save the review otherwise; a refused request
\* changes no review, and the reviews change only in the saving step of a
\* request that was found eligible, which writes the rating to the review of
\* that user and product and leaves every other review as it is.
C20_ReviewNeedsCompletedPurchase ==
    [][/\ (ev'.op = "review" /\ ev'.res = "InvalidInput") =>
            /\ ev'.id = 0 \/ ev'.param \notin {ToString(k) : k \in 1..5}
            /\ UNCHANGED <<reviews, reqs>>
       /\ (ev'.op = "review" /\ ev'.res = "NotEligible") =>
            /\ ~HasCompletedPurchase(ev'.user, ev'.id)
            /\ UNCHANGED <<reviews, reqs>>
       /\ \A r \in Reqs :
            (reqs'[r].pc = "rv_find" /\ reqs[r].pc # "rv_find") =>
                /\ HasCompletedPurchase(reqs'[r].user, reqs'[r].id)
                /\ reqs'[r].rating \in 1..5
                /\ UNCHANGED reviews
       /\ (ev'.op = "review" /\ ev'.res = "ReviewSaved") =>
            \E r \in Reqs :
                /\ reqs[r].pc = "rv_save" /\ reqs'[r].pc = "idle"
                /\ \E k \in DOMAIN reviews' :
                      reviews'[k] = [userId |-> reqs[r].user, productId |-> reqs[r].id,
                                     rating |-> reqs[r].rating]
       /\ reviews' # reviews =>
            /\ ev'.op = "review" /\ ev'.res = "ReviewSaved"
            /\ Len(reviews') >= Len(reviews)
            /\ \A k \in DOMAIN reviews :
                  reviews'[k] # reviews[k] =>
                      /\ reviews[k].userId = ev'.user
                      /\ reviews[k].productId = ev'.id]_vars

\* A review of five has just been saved by the user whose order of the product
\* is COMPLETED.
C20_Witness ==
    /\ ev.op = "review" /\ ev.res = "ReviewSaved"
    /\ HasCompletedPurchase(ev.user, ev.id)
    /\ Len(reviews) = 1
    /\ reviews[1].userId = ev.user /\ reviews[1].productId = ev.id
    /\ reviews[1].rating = 5

\* C21: in every state no two reviews have the same user and product; the
\* saving step of a review request for a pair that has a review by then writes
\* the request's rating to that review and adds none, and no submission is
\* refused because the pair has a review.
C21_SecondReviewOverwrites ==
    /\ [](\A j, k \in DOMAIN reviews :
             (reviews[j].userId = reviews[k].userId
                 /\ reviews[j].productId = reviews[k].productId) => j = k)
    /\ [][/\ ~(ev'.op = "review" /\ ev'.param = "P2002")
          /\ \A r \in Reqs :
               (/\ reqs[r].pc = "rv_save" /\ reqs'[r].pc = "idle"
                /\ ev'.res = "ReviewSaved"
                /\ ExistingReview(reqs[r].user, reqs[r].id) # {}) =>
                    /\ Len(reviews') = Len(reviews)
                    /\ \A e \in ExistingReview(reqs[r].user, reqs[r].id) :
                          reviews'[e.id].rating = reqs[r].rating]_vars

\* C22: a get-order or cancel-order request for an order that does not exist
\* or belongs to another user is answered 'Order not found', the same answer
\* in both cases, and changes nothing; an order is shown, and a cancellation
\* goes on to its transaction, only for the owner of the order.
C22_OrderOnlyForOwner ==
    [][/\ (/\ ev'.op \in {"get", "cancel"}
           /\ (ev'.id \notin DOMAIN orders \/ orders[ev'.id].userId # ev'.user)) =>
              /\ ev' = Event(ev'.op, ev'.user, ev'.id, NoSel, "", "OrderNotFound")
              /\ UNCHANGED <<tables, reviews, nextCartId, reqs>>
       /\ (ev'.op = "get" /\ ev'.res = "OK") =>
              /\ orders[ev'.id].userId = ev'.user
              /\ UNCHANGED <<tables, reviews, nextCartId, reqs>>
       /\ \A r \in Reqs :
            (reqs'[r].pc = "cn_tx" /\ reqs[r].pc # "cn_tx") =>
                orders[reqs'[r].id].userId = reqs'[r].user]_vars

\* Another user has just asked for an existing order and got 'Order not found'.
C22_Witness ==
    /\ ev.op = "get" /\ ev.res = "OrderNotFound"
    /\ ev.id \in DOMAIN orders
    /\ orders[ev.id].userId # ev.user

\* C23: the buyer can confirm receipt of an item its seller has marked as
\* DELIVERED: a complete request of the owner of the order is never refused as
\* an invalid transition while the stored status of the item is DELIVERED.
C23_DeliveredCanBeCompleted ==
    [][(ev'.op = "complete" /\ ev'.res = "InvalidTransition")
          => orderItems[ev'.id].status # "DELIVERED"]_vars

\* C24: whenever no request is under way, the stock of every product plus the
\* quantities of its order items that are not CANCELLED is the initial stock.
C24_StockConservation ==
    (\A r \in Reqs : reqs[r].pc = "idle")
        => \A p \in Products : stock[p] + HeldQty(p) = InitStock

\* The ids of the cart lines in the cart c.
LineIds(c) == {x.id : x \in c}

\* C25: a checkout one of whose loaded cart lines is no longer in the cart
\* commits nothing and is answered with an error; the step that creates an
\* order creates one order only and takes every line it loaded out of the
\* cart, so that every other checkout under way that loaded one of these lines
\* has lost the race.
C25_OneOrderPerCartLine ==
    [][/\ \A q \in Reqs :
            (/\ reqs[q].pc = "co_tx" /\ reqs'[q].pc = "idle"
             /\ ~(LineIds(reqs[q].lines) \subseteq LineIds(cart))) =>
                /\ UNCHANGED tables
                /\ ev'.op = "checkout" /\ ev'.res = "InternalError"
       /\ Len(orders') # Len(orders) =>
            /\ Len(orders') = Len(orders) + 1
            /\ \E r \in Reqs :
                  /\ reqs[r].pc = "co_tx" /\ reqs'[r].pc = "idle"
                  /\ LineIds(reqs[r].lines) \subseteq LineIds(cart)
                  /\ LineIds(reqs[r].lines) \cap LineIds(cart') = {}
                  /\ \A q \in Reqs \ {r} :
                        (/\ reqs[q].pc = "co_tx"
                         /\ LineIds(reqs[q].lines) \cap LineIds(reqs[r].lines) # {}) =>
                            /\ reqs'[q] = reqs[q]
                            /\ ~(LineIds(reqs'[q].lines) \subseteq LineIds(cart'))]_vars

\* Two checkouts of one user had loaded the same two cart lines: one order
\* exists, each stock has been lowered once, and the other checkout has just
\* failed.
C25_Witness ==
    /\ ev.op = "checkout" /\ ev.res = "InternalError"
    /\ Len(orders) = 1 /\ Len(orderItems) = 2
    /\ \A i \in DOMAIN orderItems :
          stock[orderItems[i].productId] = InitStock - orderItems[i].quantity
    /\ \A r \in Reqs : reqs[r].pc = "idle"

\* C26: no step changes the status of an order that is CANCELLED.
C26_CancelledOrderStaysCancelled ==
    [][\A o \in DOMAIN orders :
          orders[o].status = "CANCELLED" => orders'[o].status = "CANCELLED"]_vars

\* C27: a cancel-order request on an order of the caller that is CANCELLED is
\* not refused, and the step in which a cancel-order request writes to an
\* order that is CANCELLED changes no item status and no stock.
C27_SecondCancelChangesNothing ==
    [][/\ (ev'.op = "cancel" /\ ev'.res = "HasCompleted")
            => orders[ev'.id].status # "CANCELLED"
       /\ \A r \in Reqs :
            (/\ reqs[r].pc = "cn_tx" /\ reqs'[r].pc = "idle"
             /\ orders[reqs[r].id].status = "CANCELLED")
                => UNCHANGED <<orderItems, stock>>]_vars

\* C28: an order that is PAID and has a CANCELLED item (an item cancelled by
\* its seller: a cancel-order cancels the order with its items) does not
\* become COMPLETED.
C28_NoCompletionOverCancelledItem ==
    [][\A o \in DOMAIN orders :
          (/\ orders[o].status = "PAID"
           /\ \E i \in ItemsOf(o) : orderItems[i].status = "CANCELLED")
              => orders'[o].status # "COMPLETED"]_vars

\* User u may act on item i through the handler at position pc: the buyer who
\* owns the order for a complete or a cancel-order, the owner of the shop of
\* the item's product for a seller status change or a deliver.
Authorised(u, i, pc) ==
    \/ /\ pc \in {"cp_item", "cn_tx"}
       /\ orders[orderItems[i].orderId].userId = u
    \/ /\ pc \in {"ss_item", "dl_item"}
       /\ ShopOwner(orderItems[i].productId) = u

LoadedQty(lines, p) ==
    LET s == ById({l \in lines : l.productId = p})
    IN  SumSeq([i \in 1..Len(s) |-> s[i].quantity])

\* C30: a checkout loads exactly the cart lines that belong to the caller and,
\* when selectedItemIds is given, have their id in it; the step that creates
\* the order takes exactly the loaded lines out of the cart, so that every
\* line of another user and every line of the caller outside the set stays as
\* it was, creates one item per loaded line, and computes the total and every
\* stock decrement from the loaded lines alone.
C30_OnlySelectedOwnLines ==
    [][/\ \A r \in Reqs :
            (reqs[r].pc = "idle" /\ reqs'[r].pc = "co_tx") =>
                /\ LineIds(reqs'[r].lines) =
                      {c.id : c \in {c \in cart :
                                        /\ c.userId = reqs'[r].user
                                        /\ reqs'[r].sel.given => c.id \in reqs'[r].sel.ids}}
                /\ UNCHANGED tables
       /\ \A r \in Reqs :
            (/\ reqs[r].pc = "co_tx" /\ reqs'[r].pc = "idle"
             /\ ev'.res = "OrderCreated") =>
                LET L == reqs[r].lines
                IN  /\ cart' = {c \in cart : c.id \notin LineIds(L)}
                    /\ \A c \in cart :
                          (\/ c.userId # reqs[r].user
                           \/ reqs[r].sel.given /\ c.id \notin reqs[r].sel.ids) =>
                              c \in cart'
                    /\ Len(orderItems') = Len(orderItems) + Cardinality(L)
                    /\ \A k \in (Len(orderItems) + 1)..Len(orderItems') :
                          \E l \in L : /\ orderItems'[k].productId = l.productId
                                       /\ orderItems'[k].quantity = l.quantity
                    /\ orders'[Len(orders')].total =
                          SumSeq([p \in 1..Cardinality(Products) |->
                                     LoadedQty(L, p) * Price(p)])
                    /\ \A p \in Products :
                          stock'[p] = stock[p] - LoadedQty(L, p)]_vars

\* A checkout whose selectedItemIds named a line of its caller and a line of
\* the other user has just succeeded: the order has one item and the other
\* user's line is still in the cart.
C30_Witness ==
    /\ ev.op = "checkout" /\ ev.res = "OrderCreated"
    /\ ev.sel.given
    /\ Len(orderItems) = 1
    /\ \E c \in cart : c.userId # ev.user /\ c.id \in ev.sel.ids

====
